---- MODULE Spec2Model ----
(***************************************************************************)
(* Index lifecycle and bulk load helpers of                               *)
(* mindmeld/components/_elasticsearch_helpers.py, as a state machine.      *)
(*                                                                         *)
(* A caller invokes does_index_exist, create_index, delete_index or       *)
(* load_index; every engine request of the call is one step, so that the  *)
(* order of requests, the failure of any one of them and the state of the *)
(* bulk loop between two document outcomes are all visible.               *)
(***************************************************************************)
EXTENDS Integers, Sequences, FiniteSets, TLC

\* ------------------------------------------------------------- bounds
\* longest document stream handed to load_index
MaxDocs == 120
\* number of successive applications of resolve_es_config_for_version
MaxApply == 2
\* largest engine major version reported in the resolver experiments
MaxMajor == 12

\* ------------------------------------------------------ program constants
\* chunk_size passed to streaming_bulk by load_index
CHUNK_SIZE == 50

INDEX_TYPE_SYNONYM == "syn"
INDEX_TYPE_KB == "kb"
DOC_TYPE == "document"
DEFAULT_ES_INDEX_TEMPLATE_NAME == "default"

Procs == {1, 2}

\* ------------------------------------------------------------ dictionaries
\* A Python dict is a function from string keys to values.
EmptyDict == [k \in {} |-> k]
Put(d, k, v) == [x \in (DOMAIN d) \cup {k} |-> IF x = k THEN v ELSE d[x]]
Del(d, k) == [x \in (DOMAIN d) \ {k} |-> d[x]]
\* dict.get(k, default)
Get(d, k, default) == IF k \in DOMAIN d THEN d[k] ELSE default

\* ------------------------------------------------------------- exceptions
\* Class hierarchy of the exceptions the module imports and raises.
Parent(cls) ==
    CASE cls = "ConnectionTimeout" -> "ConnectionError"
      [] cls = "ConnectionError" -> "TransportError"
      [] cls = "TransportError" -> "ElasticsearchException"
      [] cls = "SerializationError" -> "ElasticsearchException"
      [] cls = "KnowledgeBaseConnectionError" -> "KnowledgeBaseError"
      [] OTHER -> "Exception"

RECURSIVE IsA(_, _)
IsA(cls, anc) ==
    IF cls = anc THEN TRUE
    ELSE IF cls = "Exception" THEN FALSE
    ELSE IsA(Parent(cls), anc)

\* exception objects: class, status code carried (0: none), payload
NoHosts == <<>>
Exc(cls, status) == [cls |-> cls, status |-> status, es_host |-> NoHosts, detail |-> 0]
NoExc == Exc("none", 0)

\* transport.hosts of the client the caller passes
ClientHosts == <<"localhost:9200">>

\* failures one engine request can end with
EngineFailures ==
    { Exc("ConnectionError", 0), Exc("ConnectionTimeout", 0),
      Exc("TransportError", 500), Exc("SerializationError", 0) }

\* faulty variant: the TransportError clause written before the
\* EsConnectionError clause, which it then shadows
TransportClauseFirst(e, with_detail) ==
    IF IsA(e.cls, "TransportError")
    THEN [Exc("KnowledgeBaseError", 0) EXCEPT !.detail = IF with_detail THEN e.status ELSE 0]
    ELSE IF IsA(e.cls, "ConnectionError")
    THEN [Exc("KnowledgeBaseConnectionError", 0) EXCEPT !.es_host = ClientHosts]
    ELSE IF IsA(e.cls, "ElasticsearchException")
    THEN Exc("KnowledgeBaseError", 0)
    ELSE e

\* faulty variant: a last clause that catches every exception and raises a
\* bare KnowledgeBaseError
CatchAllClause(e, with_detail) ==
    IF IsA(e.cls, "ConnectionError")
    THEN [Exc("KnowledgeBaseConnectionError", 0) EXCEPT !.es_host = ClientHosts]
    ELSE IF IsA(e.cls, "TransportError")
    THEN [Exc("KnowledgeBaseError", 0) EXCEPT !.detail = IF with_detail THEN e.status ELSE 0]
    ELSE Exc("KnowledgeBaseError", 0)

\* The except chain shared by the four operations: the first matching clause,
\* in the order the clauses are written, decides.  with_detail is TRUE in
\* create_index, whose TransportError clause builds a message.
Translate(e, with_detail) ==
    IF IsA(e.cls, "ConnectionError")
    THEN [Exc("KnowledgeBaseConnectionError", 0) EXCEPT !.es_host = ClientHosts]
    ELSE IF IsA(e.cls, "TransportError")
    THEN [Exc("KnowledgeBaseError", 0) EXCEPT !.detail = IF with_detail THEN e.status ELSE 0]
    ELSE IF IsA(e.cls, "ElasticsearchException")
    THEN Exc("KnowledgeBaseError", 0)
    ELSE e

\* An exception raised in the innermost frame passes the except chain of
\* every enclosing frame, innermost first.
RECURSIVE Propagate(_, _)
Propagate(e, frames) ==
    IF frames = <<>> THEN e
    ELSE Propagate(Translate(e, frames[Len(frames)] = "create_index"),
                   SubSeq(frames, 1, Len(frames) - 1))

\* ---------------------------------------------------------- scoped naming
Namespaces == {"app"}
IndexNames == {"stores"}
get_scoped_index_name(app_namespace, index_name) == <<app_namespace, "$", index_name>>

\* --------------------------------------------------------- version resolver
Digits == <<"0", "1", "2", "3", "4", "5", "6", "7", "8", "9">>
DigitVal(ch) == (CHOOSE i \in 1..10 : Digits[i] = ch) - 1

\* str.split(".")[0]
RECURSIVE FirstField(_)
FirstField(s) ==
    IF s = <<>> \/ Head(s) = "." THEN <<>>
    ELSE <<Head(s)>> \o FirstField(Tail(s))

\* int() of a string of decimal digits
RECURSIVE ParseInt(_)
ParseInt(s) ==
    IF s = <<>> THEN 0
    ELSE 10 * ParseInt(SubSeq(s, 1, Len(s) - 1)) + DigitVal(s[Len(s)])

MajorOf(info) == ParseInt(FirstField(info.version.number))

\* faulty variant: the major version read from the first character only
FirstCharMajor(info) == DigitVal(info.version.number[1])

major_version(info) == MajorOf(info)

\* is_es_version_7 on the info response: the value returned and whether the
\* compatibility warning is logged
is_es_version_7(info) ==
    [ result |-> major_version(info) >= 7,
      warned |-> major_version(info) < 5 ]

\* decimal digits of a natural number
RECURSIVE Decimal(_)
Decimal(n) == IF n < 10 THEN <<Digits[n + 1]>> ELSE Decimal(n \div 10) \o <<Digits[(n % 10) + 1]>>

InfoResponse(major, minor, patch) ==
    [version |-> [number |-> Decimal(major) \o <<".">> \o Decimal(minor) \o <<".">> \o Decimal(patch)]]

\* what the engines of the operational model answer to an info query
EngineInfos == { InfoResponse(6, 8, 23), InfoResponse(7, 10, 2) }

\* ----------------------------------------------------------- mapping adapter
\* DEFAULT_ES_INDEX_TEMPLATE as imported: flat, with a "mappings" key
TemplateInit ==
    [ template |-> "*",
      mappings |-> [properties |-> [id |-> "keyword"]],
      settings |-> "analysis" ]

\* resolve_es_config_for_version(config, es_client): the config after the call
\* (it is changed in place) and the exception raised, if any.
resolve_es_config_for_version(config, es7) ==
    IF ~es7 /\ DOC_TYPE \notin DOMAIN Get(config, "mappings", EmptyDict)
    THEN IF "mappings" \in DOMAIN config
         THEN [config |-> Put(Del(config, "mappings"), "mappings",
                              [document |-> config["mappings"]]),
               raised |-> "none"]
         ELSE [config |-> config, raised |-> "KeyError"]
    ELSE [config |-> config, raised |-> "none"]


\* base_mapping["mappings"] = base_mapping stores the dict inside itself: the
\* value under "mappings" is then a reference to the whole document.
SelfRef == [ref |-> "base_mapping"]
IsSelfRef(v) == DOMAIN v = {"ref"}

Dense(dims) == [type |-> "dense_vector", dims |-> dims]

\* for emb in embedding_properties: properties[emb["field"]] = {...}
RECURSIVE AddEmbeddings(_, _)
AddEmbeddings(properties, embs) ==
    IF embs = <<>> THEN properties
    ELSE AddEmbeddings(Put(properties, Head(embs).field, Dense(Head(embs).dims)), Tail(embs))

\* create_index_mapping(base_mapping, mapping_data): the dict returned, which
\* is base_mapping itself, changed in place
create_index_mapping(base_mapping, mapping_data) ==
    LET properties == AddEmbeddings(
                          Get(Get(base_mapping, "mappings", EmptyDict), "properties", EmptyDict),
                          Get(mapping_data, "embedding_properties", <<>>))
    IN IF "mappings" \notin DOMAIN base_mapping
       THEN Put(Put(base_mapping, "mappings", SelfRef), "properties", properties)
       ELSE Put(base_mapping, "mappings",
                Put(base_mapping["mappings"], "properties", properties))

\* ------------------------------------------------------------------ state
VARIABLES
    indices,    \* engine: the scoped index names that exist
    template,   \* module global DEFAULT_ES_INDEX_TEMPLATE (changed in place)
    pc,         \* per caller: position inside the running call
    stack,      \* per caller: the functions entered and not yet left
    args,       \* per caller: arguments of the running call
    reqs,       \* per caller: requests the running call has sent to the engine
    err,        \* per caller: exception the call ended with
    ret,        \* per caller: value the call returned
    ld,         \* per caller: locals of load_index
    logs,       \* per caller: records the call has logged
    test,       \* function experiments: the function applied and its inputs
    out         \* function experiments: results of the applications so far

vars == <<indices, template, pc, stack, args, reqs, err, ret, ld, logs, test, out>>
engineVars == <<indices, template>>
testVars == <<test, out>>

\* default of the connect_timeout parameter
CONNECT_TIMEOUT == 2

Mappings == {"kb_mapping"}
DocTypes == {"document", "faq"}
\* documents of a stream the engine may reject individually
BadDocs == {2, CHUNK_SIZE + 1}
StreamLens == {0, 1, 3, CHUNK_SIZE, CHUNK_SIZE + 1, MaxDocs}

NoArgs ==
    [ fn |-> "none", app_namespace |-> "", index_name |-> "", mapping |-> "",
      n |-> 0, docs_count |-> 0, doc_type |-> "", rejects |-> {} ]

Ret(kind, b) == [kind |-> kind, bool |-> b, succeeded |-> 0, attempted |-> 0]
Unset == Ret("unset", FALSE)
ReturnsNone == Ret("None", FALSE)

LdInit ==
    [ started |-> FALSE, count |-> 0, pbar |-> 0, total |-> 0, closed |-> FALSE,
      resolved |-> FALSE, es_version_7 |-> FALSE, typed |-> FALSE, wire_type |-> "",
      pos |-> 1, lo |-> 1, hi |-> 0 ]

Req(kind) ==
    [ kind |-> kind, index |-> <<>>, name |-> "", body |-> EmptyDict, mapping |-> "",
      first |-> 0, size |-> 0, typed |-> FALSE, doc_type |-> "", timeout |-> 0,
      number |-> <<>>, answer |-> "", outcome |-> "ok", status |-> 0 ]

Log(level, event) ==
    [ level |-> level, event |-> event, index |-> "", has_type |-> FALSE,
      doc_type |-> "", id |-> 0 ]

Outcomes == {NoExc} \cup EngineFailures
\* how a request ended: "ok", or the class of the exception it raised
Result(o) == IF o = NoExc THEN "ok" ELSE o.cls

Scoped(c) == get_scoped_index_name(args[c].app_namespace, args[c].index_name)

Init ==
    /\ indices \in SUBSET { get_scoped_index_name(ns, nm) : ns \in Namespaces, nm \in IndexNames }
    /\ template = TemplateInit
    /\ pc = [c \in Procs |-> "idle"]
    /\ stack = [c \in Procs |-> <<>>]
    /\ args = [c \in Procs |-> NoArgs]
    /\ reqs = [c \in Procs |-> <<>>]
    /\ err = [c \in Procs |-> NoExc]
    /\ ret = [c \in Procs |-> Unset]
    /\ ld = [c \in Procs |-> LdInit]
    /\ logs = [c \in Procs |-> <<>>]
    /\ test = [fn |-> "none"]
    /\ out = <<>>

\* ----------------------------------------------------------------- calls
Enter(c, a, frames) ==
    /\ pc[c] = "idle"
    /\ args' = [args EXCEPT ![c] = a]
    /\ stack' = [stack EXCEPT ![c] = frames]
    /\ pc' = [pc EXCEPT ![c] = "health"]
    /\ UNCHANGED <<engineVars, reqs, err, ret, ld, logs, testVars>>

CallExists(c) ==
    \E ns \in Namespaces, nm \in IndexNames :
        Enter(c, [NoArgs EXCEPT !.fn = "does_index_exist", !.app_namespace = ns,
                                !.index_name = nm],
              <<"does_index_exist">>)

CallCreate(c) ==
    \E ns \in Namespaces, nm \in IndexNames, m \in Mappings :
        Enter(c, [NoArgs EXCEPT !.fn = "create_index", !.app_namespace = ns,
                                !.index_name = nm, !.mapping = m],
              <<"create_index", "does_index_exist">>)

CallDelete(c) ==
    \E ns \in Namespaces, nm \in IndexNames :
        Enter(c, [NoArgs EXCEPT !.fn = "delete_index", !.app_namespace = ns,
                                !.index_name = nm],
              <<"delete_index", "does_index_exist">>)

CallLoad(c) ==
    \E ns \in Namespaces, nm \in IndexNames, m \in Mappings, n \in StreamLens,
       dt \in DocTypes, bad \in SUBSET BadDocs :
      \E dc \in {0, n, n + 1} :
        /\ bad \subseteq 1..n
        /\ Enter(c, [NoArgs EXCEPT !.fn = "load_index", !.app_namespace = ns,
                                   !.index_name = nm, !.mapping = m, !.n = n,
                                   !.docs_count = dc, !.doc_type = dt, !.rejects = bad],
                 <<"load_index", "does_index_exist">>)

\* the call ends with exception e raised in the innermost frame
Raise(c, e) ==
    /\ err' = [err EXCEPT ![c] = Propagate(e, stack[c])]
    /\ stack' = [stack EXCEPT ![c] = <<>>]
    /\ pc' = [pc EXCEPT ![c] = "done"]

\* the outermost function returns value v
Finish(c, v) ==
    /\ ret' = [ret EXCEPT ![c] = v]
    /\ stack' = [stack EXCEPT ![c] = <<>>]
    /\ pc' = [pc EXCEPT ![c] = "done"]

Sent(c, r) == reqs' = [reqs EXCEPT ![c] = Append(@, r)]
Logged(c, l) == logs' = [logs EXCEPT ![c] = Append(@, l)]

\* create_index returns (None) to whoever called it
CreateReturns(c) ==
    IF Len(stack[c]) >= 2 /\ stack[c][1] = "load_index"
    THEN /\ stack' = [stack EXCEPT ![c] = <<"load_index">>]
         /\ pc' = [pc EXCEPT ![c] = "ld_resolve"]
         /\ UNCHANGED <<ret, err>>
    ELSE /\ Finish(c, ReturnsNone)
         /\ UNCHANGED err

\* what each operation does with the answer of does_index_exist
\* faulty variant: create_index creates whatever the answer
create_always(present) == TRUE
\* create_index: if not does_index_exist(...)
create_needed(present) == ~present

\* faulty variant: delete_index deletes whatever the answer
delete_always(present) == TRUE
\* delete_index: if does_index_exist(...)
delete_allowed(present) == present

\* faulty variant: load_index goes on without creating the index
load_never_creates(present) == FALSE
\* load_index: create_index(...) in the else branch of if does_index_exist(...)
load_creates(present) == ~present

\* ------------------------------------------------------- does_index_exist
\* es_client.cluster.health(request_timeout=connect_timeout)
Health(c) ==
    /\ pc[c] = "health"
    /\ \E o \in Outcomes :
        /\ Sent(c, [Req("health") EXCEPT !.timeout = CONNECT_TIMEOUT, !.outcome = Result(o), !.status = o.status])
        /\ IF o = NoExc
           THEN /\ pc' = [pc EXCEPT ![c] = "exists"]
                /\ UNCHANGED <<stack, err>>
           ELSE Raise(c, o)
    /\ UNCHANGED <<engineVars, args, ret, ld, logs, testVars>>

\* return es_client.indices.exists(index=scoped_index_name), and what the
\* caller of does_index_exist does with the answer up to its next request
ExistsQuery(c) ==
    /\ pc[c] = "exists"
    /\ \E o \in Outcomes :
        LET present == Scoped(c) \in indices
            caller == IF Len(stack[c]) >= 2 THEN stack[c][Len(stack[c]) - 1] ELSE "none"
        IN
        /\ Sent(c, [Req("exists") EXCEPT
                       !.index = Scoped(c), !.outcome = Result(o), !.status = o.status,
                       !.answer = IF o # NoExc THEN ""
                                  ELSE IF present THEN "present" ELSE "absent"])
        /\ IF o # NoExc
           THEN /\ Raise(c, o)
                /\ UNCHANGED <<ret, logs>>
           ELSE CASE caller = "none" ->
                       /\ Finish(c, Ret("bool", present))
                       /\ UNCHANGED <<err, logs>>
                  [] caller = "create_index" ->
                       IF ~create_needed(present)
                       THEN /\ Logged(c, [Log("error", "index_exists") EXCEPT
                                             !.index = args[c].index_name])
                            /\ CreateReturns(c)
                       ELSE /\ stack' = [stack EXCEPT ![c] = SubSeq(@, 1, Len(@) - 1)]
                            /\ pc' = [pc EXCEPT ![c] = "cr_resolve"]
                            /\ UNCHANGED <<ret, err, logs>>
                  [] caller = "delete_index" ->
                       IF delete_allowed(present)
                       THEN /\ Logged(c, [Log("info", "deleting") EXCEPT
                                             !.index = args[c].index_name])
                            /\ stack' = [stack EXCEPT ![c] = SubSeq(@, 1, Len(@) - 1)]
                            /\ pc' = [pc EXCEPT ![c] = "del_delete"]
                            /\ UNCHANGED <<ret, err>>
                       ELSE /\ err' = [err EXCEPT ![c] =
                                         Propagate(Exc("ValueError", 0), <<"delete_index">>)]
                            /\ stack' = [stack EXCEPT ![c] = <<>>]
                            /\ pc' = [pc EXCEPT ![c] = "done"]
                            /\ UNCHANGED <<ret, logs>>
                  [] caller = "load_index" ->
                       IF ~load_creates(present)
                       THEN /\ Logged(c, [Log("warning", "index_exists") EXCEPT
                                             !.index = args[c].index_name])
                            /\ stack' = [stack EXCEPT ![c] = <<"load_index">>]
                            /\ pc' = [pc EXCEPT ![c] = "ld_resolve"]
                            /\ UNCHANGED <<ret, err>>
                       ELSE /\ stack' = [stack EXCEPT ![c] =
                                           <<"load_index", "create_index", "does_index_exist">>]
                            /\ pc' = [pc EXCEPT ![c] = "health"]
                            /\ UNCHANGED <<ret, err, logs>>
    /\ UNCHANGED <<engineVars, args, ld, testVars>>


\* ------------------------------------------------------------ create_index
\* template = resolve_es_config_for_version(DEFAULT_ES_INDEX_TEMPLATE, es_client):
\* the info query of is_es_version_7 and the rewrite of the global template
CreateResolve(c) ==
    /\ pc[c] = "cr_resolve"
    /\ \E o \in Outcomes, info \in EngineInfos :
        LET v == is_es_version_7(info)
            r == resolve_es_config_for_version(template, v.result)
        IN
        /\ Sent(c, [Req("info") EXCEPT !.outcome = Result(o), !.status = o.status,
                                      !.number = IF o = NoExc THEN info.version.number ELSE <<>>])
        /\ IF o # NoExc
           THEN /\ Raise(c, o)
                /\ UNCHANGED <<template, logs>>
           ELSE /\ IF v.warned
                   THEN Logged(c, Log("warning", "unsupported_version"))
                   ELSE UNCHANGED logs
                /\ template' = r.config
                /\ IF r.raised = "none"
                   THEN /\ pc' = [pc EXCEPT ![c] = "cr_template"]
                        /\ UNCHANGED <<stack, err>>
                   ELSE Raise(c, Exc(r.raised, 0))
    /\ UNCHANGED <<indices, args, ret, ld, testVars>>

\* faulty variant: the index is created although its template was refused
TemplateFailureIgnored(c, o) ==
    /\ pc' = [pc EXCEPT ![c] = "cr_create"]
    /\ UNCHANGED <<stack, err, logs>>

\* put_template sits in the try block of create_index: its exception skips
\* indices.create and reaches the except clauses
TemplateFailed(c, o) ==
    /\ Raise(c, o)
    /\ UNCHANGED logs

\* es_client.indices.put_template(name=DEFAULT_ES_INDEX_TEMPLATE_NAME, body=template)
PutTemplate(c) ==
    /\ pc[c] = "cr_template"
    /\ \E o \in Outcomes :
        /\ Sent(c, [Req("put_template") EXCEPT !.name = DEFAULT_ES_INDEX_TEMPLATE_NAME,
                                              !.body = template, !.outcome = Result(o), !.status = o.status])
        /\ IF o # NoExc
           THEN TemplateFailed(c, o)
           ELSE /\ Logged(c, [Log("info", "creating") EXCEPT !.index = args[c].index_name])
                /\ pc' = [pc EXCEPT ![c] = "cr_create"]
                /\ UNCHANGED <<stack, err>>
    /\ UNCHANGED <<engineVars, args, ret, ld, testVars>>

\* faulty variant: a refused creation is taken for the no-op of an index
\* that exists
CreateFailureIsNoOp(c, o) ==
    /\ CreateReturns(c)
    /\ UNCHANGED indices

\* indices.create raised: the except clauses of create_index
CreateFailed(c, o) ==
    /\ Raise(c, o)
    /\ UNCHANGED <<indices, ret>>

\* es_client.indices.create(scoped_index_name, body=mapping); the engine
\* rejects the creation of an index that exists
IndicesCreate(c) ==
    /\ pc[c] = "cr_create"
    /\ \E o \in Outcomes \cup {Exc("TransportError", 400)} :
        /\ Scoped(c) \in indices => o # NoExc
        /\ o = Exc("TransportError", 400) => Scoped(c) \in indices
        /\ Sent(c, [Req("create") EXCEPT !.index = Scoped(c), !.mapping = args[c].mapping,
                                        !.outcome = Result(o), !.status = o.status])
        /\ IF o # NoExc
           THEN CreateFailed(c, o)
           ELSE /\ indices' = indices \cup {Scoped(c)}
                /\ CreateReturns(c)
    /\ UNCHANGED <<template, args, ld, logs, testVars>>

\* ------------------------------------------------------------ delete_index
\* es_client.indices.delete(scoped_index_name); the engine rejects the
\* deletion of an index that does not exist
IndicesDelete(c) ==
    /\ pc[c] = "del_delete"
    /\ \E o \in Outcomes \cup {Exc("TransportError", 404)} :
        /\ Scoped(c) \notin indices => o # NoExc
        /\ o = Exc("TransportError", 404) => Scoped(c) \notin indices
        /\ Sent(c, [Req("delete") EXCEPT !.index = Scoped(c), !.outcome = Result(o), !.status = o.status])
        /\ IF o # NoExc
           THEN /\ Raise(c, o)
                /\ UNCHANGED <<indices, ret>>
           ELSE /\ indices' = indices \ {Scoped(c)}
                /\ Finish(c, ReturnsNone)
                /\ UNCHANGED err
    /\ UNCHANGED <<template, args, ld, logs, testVars>>

\* -------------------------------------------------------------- load_index
\* count = 0; pbar = tqdm(total=docs_count); es_version_7 = is_es_version_7(es_client)
LoadResolve(c) ==
    /\ pc[c] = "ld_resolve"
    /\ \E o \in Outcomes, info \in EngineInfos :
        LET v == is_es_version_7(info) IN
        /\ Sent(c, [Req("info") EXCEPT !.outcome = Result(o), !.status = o.status,
                                      !.number = IF o = NoExc THEN info.version.number ELSE <<>>])
        /\ IF o # NoExc
           THEN /\ Raise(c, o)
                /\ ld' = [ld EXCEPT ![c].started = TRUE, ![c].total = args[c].docs_count]
                /\ UNCHANGED logs
           ELSE /\ IF v.warned
                   THEN Logged(c, Log("warning", "unsupported_version"))
                   ELSE UNCHANGED logs
                /\ ld' = [ld EXCEPT ![c].started = TRUE, ![c].total = args[c].docs_count,
                                    ![c].resolved = TRUE, ![c].es_version_7 = v.result]
                /\ pc' = [pc EXCEPT ![c] = "ld_setup"]
                /\ UNCHANGED <<stack, err>>
    /\ UNCHANGED <<engineVars, args, ret, testVars>>

\* version_compatible_streaming_bulk(es_client, docs, scoped_index_name, 50,
\* False, DOC_TYPE): its own is_es_version_7 decides whether the batches carry
\* doc_type
version_compatible_streaming_bulk(c) ==
    /\ pc[c] = "ld_setup"
    /\ \E o \in Outcomes, info \in EngineInfos :
        LET v == is_es_version_7(info) IN
        /\ Sent(c, [Req("info") EXCEPT !.outcome = Result(o), !.status = o.status,
                                      !.number = IF o = NoExc THEN info.version.number ELSE <<>>])
        /\ IF o # NoExc
           THEN /\ Raise(c, o)
                /\ UNCHANGED <<ld, logs>>
           ELSE /\ IF v.warned
                   THEN Logged(c, Log("warning", "unsupported_version"))
                   ELSE UNCHANGED logs
                /\ ld' = [ld EXCEPT ![c].typed = ~v.result,
                                    ![c].wire_type = IF v.result THEN "" ELSE DOC_TYPE]
                /\ pc' = [pc EXCEPT ![c] = "ld_iter"]
                /\ UNCHANGED <<stack, err>>
    /\ UNCHANGED <<engineVars, args, ret, testVars>>

\* faulty variant: chunks one document short
ShortChunk(remaining) == IF remaining < CHUNK_SIZE - 1 THEN remaining ELSE CHUNK_SIZE - 1

\* number of documents of the next chunk streaming_bulk reads from the stream

ChunkLen(remaining) == IF remaining < CHUNK_SIZE THEN remaining ELSE CHUNK_SIZE

\* faulty variant: a failed submission is tried again
BulkRetried(c, o) ==
    /\ UNCHANGED <<pc, stack, err, ld>>

\* a failed submission: the exception leaves the generator and the for loop
\* and reaches the except clauses of load_index

BulkFailed(c, o) ==
    /\ Raise(c, o)
    /\ UNCHANGED ld

\* streaming_bulk reads the next chunk of the stream and submits it
BulkSubmit(c) ==
    /\ pc[c] = "ld_iter"
    /\ ld[c].pos <= args[c].n
    /\ \E o \in Outcomes :
        LET size == ChunkLen(args[c].n - ld[c].pos + 1) IN
        /\ Sent(c, [Req("bulk") EXCEPT !.index = Scoped(c), !.first = ld[c].pos,
                                      !.size = size, !.typed = ld[c].typed,
                                      !.doc_type = ld[c].wire_type, !.outcome = Result(o), !.status = o.status])
        /\ IF o # NoExc
           THEN BulkFailed(c, o)
           ELSE /\ ld' = [ld EXCEPT ![c].lo = ld[c].pos, ![c].hi = ld[c].pos + size - 1,
                                    ![c].pos = ld[c].pos + size]
                /\ pc' = [pc EXCEPT ![c] = "ld_outcome"]
                /\ UNCHANGED <<stack, err>>
    /\ UNCHANGED <<engineVars, args, ret, logs, testVars>>

\* faulty variant: failed documents counted as loaded
CountEvery(count, okay) == count + 1

\* if not okay: logger.error(...) else: count += 1
NextCount(count, okay) == IF okay THEN count + 1 ELSE count

\* faulty variant: the progress bar advances for loaded documents only
pbar_on_success(pbar, okay) == IF okay THEN pbar + 1 ELSE pbar

\* pbar.update(1), outside the if/else on okay
pbar_update(pbar, okay) == pbar + 1

\* one pass of the for loop: the outcome of the next document of the chunk
Outcome(c) ==
    /\ pc[c] = "ld_outcome"
    /\ LET d == ld[c].lo
           okay == d \notin args[c].rejects
           doc_id == [Log("error", "doc_failed") EXCEPT
                        !.index = args[c].index_name,
                        !.has_type = ~ld[c].es_version_7,
                        !.doc_type = IF ld[c].es_version_7 THEN "" ELSE args[c].doc_type,
                        !.id = d]
       IN
       /\ IF okay THEN UNCHANGED logs ELSE Logged(c, doc_id)
       /\ ld' = [ld EXCEPT ![c].count = NextCount(@, okay),
                           ![c].pbar = pbar_update(@, okay),
                           ![c].lo = d + 1]
       /\ pc' = [pc EXCEPT ![c] = IF d = ld[c].hi THEN "ld_iter" ELSE "ld_outcome"]
    /\ UNCHANGED <<engineVars, stack, args, reqs, err, ret, testVars>>

\* faulty variant: the loop may be left after any chunk
LeftAfterAnyChunk(c) == TRUE

\* the for loop ends when streaming_bulk has no document left to read
StreamExhausted(c) == ld[c].pos > args[c].n

\* the stream is exhausted: pbar.close(); es_client.indices.refresh(index=
\* scoped_index_name); logger.info("Loaded ..."); the function ends without a
\* return statement
Refresh(c) ==
    /\ pc[c] = "ld_iter"
    /\ StreamExhausted(c)
    /\ \E o \in Outcomes :
        /\ Sent(c, [Req("refresh") EXCEPT !.index = Scoped(c), !.outcome = Result(o), !.status = o.status])
        /\ ld' = [ld EXCEPT ![c].closed = TRUE]
        /\ IF o # NoExc
           THEN /\ Raise(c, o)
                /\ UNCHANGED <<ret, logs>>
           ELSE /\ Logged(c, [Log("info", "loaded") EXCEPT !.id = ld[c].count])
                /\ Finish(c, ReturnsNone)
                /\ UNCHANGED err
    /\ UNCHANGED <<engineVars, args, testVars>>

\* the caller has the result of the call and may call again
Return(c) ==
    /\ pc[c] = "done"
    /\ pc' = [pc EXCEPT ![c] = "idle"]
    /\ args' = [args EXCEPT ![c] = NoArgs]
    /\ reqs' = [reqs EXCEPT ![c] = <<>>]
    /\ err' = [err EXCEPT ![c] = NoExc]
    /\ ret' = [ret EXCEPT ![c] = Unset]
    /\ ld' = [ld EXCEPT ![c] = LdInit]
    /\ logs' = [logs EXCEPT ![c] = <<>>]
    /\ UNCHANGED <<engineVars, stack, testVars>>

Next ==
    \/ CallExists(1)
    \/ CallCreate(1)
    \/ CallDelete(1)
    \/ CallLoad(1)
    \/ Health(1)
    \/ ExistsQuery(1)
    \/ CreateResolve(1)
    \/ PutTemplate(1)
    \/ IndicesCreate(1)
    \/ IndicesDelete(1)
    \/ LoadResolve(1)
    \/ version_compatible_streaming_bulk(1)
    \/ BulkSubmit(1)
    \/ Outcome(1)
    \/ Refresh(1)
    \/ Return(1)

Spec == Init /\ [][Next]_vars


\* ------------------------------------------------------ concurrent creates
\* Two callers of create_index with their own clients and one engine: their
\* requests interleave freely, nothing serializes the calls.
InitRace ==
    /\ Init
    /\ indices = {}

NextRace ==
    \E c \in Procs :
        \/ CallCreate(c)
        \/ Health(c)
        \/ ExistsQuery(c)
        \/ CreateResolve(c)
        \/ PutTemplate(c)
        \/ IndicesCreate(c)

SpecRace == InitRace /\ [][NextRace]_vars

\* --------------------------------------------------- function experiments
\* The three functions that take no part in a call sequence are applied to
\* inputs drawn from the sets below.
IdleCallers ==
    /\ indices = {}
    /\ template = TemplateInit
    /\ pc = [c \in Procs |-> "idle"]
    /\ stack = [c \in Procs |-> <<>>]
    /\ args = [c \in Procs |-> NoArgs]
    /\ reqs = [c \in Procs |-> <<>>]
    /\ err = [c \in Procs |-> NoExc]
    /\ ret = [c \in Procs |-> Unset]
    /\ ld = [c \in Procs |-> LdInit]
    /\ logs = [c \in Procs |-> <<>>]

callVars == <<indices, template, pc, stack, args, reqs, err, ret, ld, logs>>

IdField == [id |-> [type |-> "keyword"]]

Configs ==
    { EmptyDict,
      [settings |-> "analysis"],
      [mappings |-> EmptyDict],
      [mappings |-> [properties |-> IdField]],
      [mappings |-> [dynamic |-> "strict", properties |-> IdField], settings |-> "analysis"],
      [mappings |-> [document |-> [properties |-> IdField]]],
      [mappings |-> [document |-> [properties |-> IdField]], settings |-> "analysis"],
      TemplateInit }

BaseMappings ==
    { EmptyDict,
      [settings |-> "analysis"],
      [mappings |-> EmptyDict],
      [mappings |-> [dynamic |-> "strict"]],
      [mappings |-> [dynamic |-> "strict"], settings |-> "analysis"],
      [mappings |-> [properties |-> IdField]],
      [mappings |-> [properties |-> IdField], settings |-> "analysis"] }

Emb(field, dims) == [field |-> field, dims |-> dims]

MappingDatas ==
    { EmptyDict,
      [embedding_properties |-> <<>>],
      [embedding_properties |-> <<Emb("question_emb", 3)>>],
      [embedding_properties |-> <<Emb("question_emb", 3), Emb("answer_emb", 768)>>],
      [embedding_properties |-> <<Emb("question_emb", 3), Emb("question_emb", 768)>>] }

NoTest ==
    [ fn |-> "none", major |-> 0, info |-> InfoResponse(0, 0, 0), config |-> EmptyDict,
      base_mapping |-> EmptyDict, mapping_data |-> EmptyDict ]

InitFunctions ==
    /\ IdleCallers
    /\ out = <<>>
    /\ \/ \E major \in 0..MaxMajor, minor \in {0, 10}, patch \in {0, 23} :
            test = [NoTest EXCEPT !.fn = "is_es_version_7", !.major = major,
                                  !.info = InfoResponse(major, minor, patch)]
       \/ \E config \in Configs :
            test = [NoTest EXCEPT !.fn = "resolve_es_config_for_version", !.config = config]
       \/ \E bm \in BaseMappings, md \in MappingDatas :
            test = [NoTest EXCEPT !.fn = "create_index_mapping", !.base_mapping = bm,
                                  !.mapping_data = md]

\* is_es_version_7(es_client) against an engine of the drawn version
ApplyVersion ==
    /\ test.fn = "is_es_version_7"
    /\ out = <<>>
    /\ out' = <<is_es_version_7(test.info)>>
    /\ UNCHANGED <<callVars, test>>

\* resolve_es_config_for_version(config, es_client) on the same config object
\* again: the engine answers the info query with any of its versions
ApplyResolve ==
    /\ test.fn = "resolve_es_config_for_version"
    /\ Len(out) < MaxApply
    /\ \E info \in EngineInfos \cup {InfoResponse(2, 4, 6)} :
        LET v == is_es_version_7(info)
            config == IF out = <<>> THEN test.config ELSE out[Len(out)].config
            r == resolve_es_config_for_version(config, v.result)
        IN out' = Append(out, [es7 |-> v.result, config |-> r.config, raised |-> r.raised])
    /\ UNCHANGED <<callVars, test>>

\* create_index_mapping(base_mapping, mapping_data)
ApplyMerge ==
    /\ test.fn = "create_index_mapping"
    /\ out = <<>>
    /\ out' = <<[result |-> create_index_mapping(test.base_mapping, test.mapping_data)]>>
    /\ UNCHANGED <<callVars, test>>

NextFunctions == ApplyVersion \/ ApplyResolve \/ ApplyMerge

SpecFunctions == InitFunctions /\ [][NextFunctions]_vars


\* ------------------------------------------------------------- properties
Caller == CHOOSE c \in Procs : \A d \in Procs : c <= d

Sends(c, kind) == { i \in DOMAIN reqs[c] : reqs[c][i].kind = kind }
Reported(c, answer) ==
    \E i \in Sends(c, "exists") : reqs[c][i].answer = answer
AllOk(c) == \A i \in DOMAIN reqs[c] : reqs[c][i].outcome = "ok"
ScopedName(c) == <<args[c].app_namespace, "$", args[c].index_name>>

\* C1: a create_index call whose existence check answers "present" sends no
\* put_template and no create request and has returned normally.
C1_CreateOnPresentIsNoOp ==
    \A c \in Procs :
        (args[c].fn = "create_index" /\ Reported(c, "present")) =>
            /\ Sends(c, "put_template") = {}
            /\ Sends(c, "create") = {}
            /\ pc[c] = "done"
            /\ err[c] = NoExc
            /\ ret[c] = ReturnsNone

C1_Witness ==
    /\ args[Caller].fn = "create_index"
    /\ Reported(Caller, "present")
    /\ pc[Caller] = "done"
    /\ Len(reqs[Caller]) = 2

\* C2: a delete_index call whose existence check answers "absent" sends no
\* delete request and ends with ValueError, which is neither
\* KnowledgeBaseConnectionError nor KnowledgeBaseError; one whose check answers
\* "present" has sent, when it ends, exactly one delete request, for the
\* scoped name.
C2_DeleteOnAbsentRaisesValueError ==
    \A c \in Procs :
        args[c].fn = "delete_index" =>
            /\ Reported(c, "absent") =>
                  /\ Sends(c, "delete") = {}
                  /\ pc[c] = "done"
                  /\ err[c].cls = "ValueError"
                  /\ ~IsA(err[c].cls, "KnowledgeBaseError")
                  /\ ret[c] = Unset
            /\ (Reported(c, "present") /\ pc[c] = "done") =>
                  /\ Cardinality(Sends(c, "delete")) = 1
                  /\ \A i \in Sends(c, "delete") : reqs[c][i].index = ScopedName(c)

C2_Witness ==
    /\ args[Caller].fn = "delete_index"
    /\ Reported(Caller, "absent")
    /\ err[Caller].cls = "ValueError"
    /\ ScopedName(Caller) \notin indices

\* C3: in each of the four operations, once a cluster-health check fails
\* with a connection failure or a timeout, the call has ended with
\* KnowledgeBaseConnectionError carrying the client's hosts, without a
\* return value, and the health check is the last request it sent.
ConnectionFailures == {"ConnectionError", "ConnectionTimeout"}

C3_UnreachableAtHealthCheck ==
    \A c \in Procs :
        \A i \in Sends(c, "health") :
            reqs[c][i].outcome \in ConnectionFailures =>
                /\ i = Len(reqs[c])
                /\ pc[c] = "done"
                /\ err[c].cls = "KnowledgeBaseConnectionError"
                /\ err[c].es_host = ClientHosts
                /\ ret[c] = Unset

C3_Witness ==
    /\ args[Caller].fn = "does_index_exist"
    /\ Len(reqs[Caller]) = 1
    /\ reqs[Caller][1].kind = "health"
    /\ reqs[Caller][1].outcome = "ConnectionTimeout"
    /\ err[Caller].cls = "KnowledgeBaseConnectionError"


\* load_index calls that met no failing request and have ended
LoadEnded(c) == args[c].fn = "load_index" /\ pc[c] = "done" /\ AllOk(c)
Failed(c) == { i \in DOMAIN logs[c] : logs[c][i].event = "doc_failed" }
Summary(succeeded, attempted) ==
    [kind |-> "summary", bool |-> FALSE, succeeded |-> succeeded, attempted |-> attempted]

EmptyLoad(c) == LoadEnded(c) /\ args[c].n = 0 /\ args[c].docs_count = 0

EmptyLoadRequests(c) ==
    /\ reqs[c][2].answer = "absent" =>
          /\ Cardinality(Sends(c, "create")) = 1
          /\ \A i \in Sends(c, "create") : reqs[c][i].index = ScopedName(c)
          /\ ScopedName(c) \in indices
    /\ reqs[c][2].answer = "present" =>
          /\ Sends(c, "create") = {}
          /\ Sends(c, "put_template") = {}
    /\ Sends(c, "bulk") = {}
    /\ Cardinality(Sends(c, "refresh")) = 1
    /\ \A i \in Sends(c, "refresh") : reqs[c][i].index = ScopedName(c)

C6_BatchesOfFifty ==
    \A c \in Procs :
        LET bulks == SelectSeq(reqs[c], LAMBDA r : r.kind = "bulk") IN
        /\ \A j \in DOMAIN bulks :
              /\ bulks[j].first = 50 * (j - 1) + 1
              /\ bulks[j].size > 0
              /\ bulks[j].size = IF args[c].n - 50 * (j - 1) < 50
                                 THEN args[c].n - 50 * (j - 1) ELSE 50
        /\ LoadEnded(c) => Len(bulks) = (args[c].n + 49) \div 50

C6_Witness ==
    /\ LoadEnded(Caller)
    /\ args[Caller].n = MaxDocs
    /\ Cardinality(Sends(Caller, "bulk")) = 3
    /\ reqs[Caller][Len(reqs[Caller]) - 1].size = MaxDocs - 100

\* C7: once a batch submission fails, the load has ended with
\* KnowledgeBaseConnectionError or KnowledgeBaseError (the former for a
\* connection failure), the failed submission is the last request it sent (no
\* further batch, no refresh, no deletion), no batch was submitted twice, and
\* the index with the earlier batches is still there.
C7_FailedBatchAbortsLoad ==
    \A c \in Procs :
        /\ \A i \in Sends(c, "bulk") :
              reqs[c][i].outcome # "ok" =>
                  /\ i = Len(reqs[c])
                  /\ pc[c] = "done"
                  /\ err[c].cls \in {"KnowledgeBaseConnectionError", "KnowledgeBaseError"}
                  /\ reqs[c][i].outcome \in ConnectionFailures
                        <=> err[c].cls = "KnowledgeBaseConnectionError"
                  /\ ret[c] = Unset
                  /\ Sends(c, "refresh") = {}
                  /\ Sends(c, "delete") = {}
                  /\ ScopedName(c) \in indices
        /\ \A i, j \in Sends(c, "bulk") : reqs[c][i].first = reqs[c][j].first => i = j

C7_Witness ==
    /\ args[Caller].fn = "load_index"
    /\ pc[Caller] = "done"
    /\ Cardinality(Sends(Caller, "bulk")) = 2
    /\ reqs[Caller][Len(reqs[Caller])].kind = "bulk"
    /\ reqs[Caller][Len(reqs[Caller])].outcome = "TransportError"
    /\ err[Caller].cls = "KnowledgeBaseError"
    /\ ld[Caller].pbar = 50


\* C8: against an engine of major version v, is_es_version_7 returns TRUE
\* iff v >= 7 and logs the compatibility warning iff v < 5, in which case it
\* returns FALSE.
C8_ModernIffSevenOrLater ==
    (test.fn = "is_es_version_7" /\ out # <<>>) =>
        /\ out[1].result <=> test.major >= 7
        /\ out[1].warned <=> test.major < 5
        /\ out[1].warned => ~out[1].result

C8_Witness ==
    /\ test.fn = "is_es_version_7"
    /\ out # <<>>
    /\ test.major = 4
    /\ out[1].warned
    /\ ~out[1].result

\* C9 as stated: for every config, with or without a "mappings" key or
\* already nested under "document", no application of
\* resolve_es_config_for_version against a pre-7 engine raises, and a second
\* such application leaves the result of the first unchanged.
C9_LegacyAdaptIsIdempotent ==
    test.fn = "resolve_es_config_for_version" =>
        /\ \A i \in DOMAIN out : ~out[i].es7 => out[i].raised = "none"
        /\ (Len(out) >= 2 /\ ~out[1].es7 /\ ~out[2].es7) => out[2].config = out[1].config

\* C10 as stated: for a base mapping without a properties map,
\* create_index_mapping returns the base mapping with a dict under
\* "mappings" whose "properties" holds exactly the embedding fields, each
\* {type: dense_vector, dims: n}; the other keys of the base mapping and of
\* its "mappings" are as they were and no key is added next to them.
LacksProperties(bm) ==
    /\ "properties" \notin DOMAIN bm
    /\ "properties" \notin DOMAIN Get(bm, "mappings", EmptyDict)

EmbeddingFields(md) ==
    LET embs == Get(md, "embedding_properties", <<>>)
        fields == { embs[i].field : i \in DOMAIN embs }
        last(f) == CHOOSE i \in DOMAIN embs :
                      /\ embs[i].field = f
                      /\ \A j \in DOMAIN embs : embs[j].field = f => j <= i
    IN [f \in fields |-> [type |-> "dense_vector", dims |-> embs[last(f)].dims]]

C10_MergeCreatesProperties ==
    (test.fn = "create_index_mapping" /\ out # <<>> /\ LacksProperties(test.base_mapping)) =>
        LET bm == test.base_mapping
            res == out[1].result
            inner == Get(bm, "mappings", EmptyDict)
        IN
        /\ "mappings" \in DOMAIN res
        /\ ~IsSelfRef(res["mappings"])
        /\ DOMAIN res = (DOMAIN bm) \cup {"mappings"}
        /\ \A k \in (DOMAIN bm) \ {"mappings"} : res[k] = bm[k]
        /\ DOMAIN res["mappings"] = (DOMAIN inner) \cup {"properties"}
        /\ \A k \in DOMAIN inner : res["mappings"][k] = inner[k]
        /\ res["mappings"]["properties"] = EmbeddingFields(test.mapping_data)


\* C11 as stated: in each of the four operations, a call that ends on a
\* request the engine rejected with a status code ends with
\* KnowledgeBaseError carrying that status code, and one that ends on a
\* connection failure ends with KnowledgeBaseConnectionError carrying the
\* client's hosts, never with plain KnowledgeBaseError.
LastRequest(c) == reqs[c][Len(reqs[c])]

C11_ErrorsCarryTheirPayload ==
    \A c \in Procs :
        (pc[c] = "done" /\ reqs[c] # <<>>) =>
            /\ LastRequest(c).outcome = "TransportError" =>
                  /\ err[c].cls = "KnowledgeBaseError"
                  /\ err[c].detail = LastRequest(c).status
            /\ LastRequest(c).outcome \in ConnectionFailures =>
                  /\ err[c].cls = "KnowledgeBaseConnectionError"
                  /\ err[c].es_host = ClientHosts


\* C12 as stated: every template a create registers has the shape of the
\* generation that create resolved with the info query just before it:
\* nested under "document" for a pre-7 engine, flat for an engine of
\* version 7 or later, whatever the earlier calls of the process were.
Nested(body) == DOC_TYPE \in DOMAIN body["mappings"]
ReportedModern(r) == MajorOf([version |-> [number |-> r.number]]) >= 7

C12_TemplateShapeFollowsGeneration ==
    \A c \in Procs :
        \A i \in Sends(c, "put_template") :
            /\ i > 1
            /\ reqs[c][i - 1].kind = "info"
            /\ Nested(reqs[c][i].body) <=> ~ReportedModern(reqs[c][i - 1])


\* C13 as stated: a load asks the engine for its version once after the
\* index is ensured, and the batches carry a document type exactly when the
\* display paths of the outcomes do, whatever the engine answers to a later
\* info query of the same load.
InLoadLoop(c) == args[c].fn = "load_index" /\ pc[c] \in {"ld_iter", "ld_outcome"}
\* requests sent before the load resolves the generation: those of the two
\* existence checks and of the delegated create
Ensuring == {"health", "exists", "put_template", "create"}
LoadInfos(c) ==
    { i \in Sends(c, "info") :
        \A j \in DOMAIN reqs[c] : j > i => reqs[c][j].kind \notin Ensuring }

C13_GenerationPinnedForLoad ==
    \A c \in Procs :
        InLoadLoop(c) =>
            /\ Cardinality(LoadInfos(c)) = 1
            /\ \A i \in Sends(c, "bulk") : reqs[c][i].typed <=> ~ld[c].es_version_7
            /\ \A i \in Sends(c, "bulk"), j \in Failed(c) :
                    reqs[c][i].typed <=> logs[c][j].has_type

\* C14 as stated: a batch sent to a pre-7 engine carries the doc_type the
\* caller passed to load_index, the one of the display path; a batch sent to
\* an engine of version 7 or later carries no document type.
C14_BatchesCarryCallersDocType ==
    \A c \in Procs :
        \A i \in Sends(c, "bulk") :
            /\ reqs[c][i].typed <=> ~ReportedModern(reqs[c][CHOOSE j \in Sends(c, "info") :
                                          \A k \in Sends(c, "info") : k <= j])
            /\ reqs[c][i].typed => reqs[c][i].doc_type = args[c].doc_type
            /\ ~reqs[c][i].typed => reqs[c][i].doc_type = ""


\* C15: a load sends at most one refresh; the refresh names the scoped index,
\* is the last request of the call, follows every batch, and is sent only when
\* every document of the stream has been submitted and its outcome processed;
\* a load that ends normally has sent exactly one.
C15_OneRefreshAfterTheStream ==
    \A c \in Procs :
        args[c].fn = "load_index" =>
            /\ Cardinality(Sends(c, "refresh")) <= 1
            /\ LoadEnded(c) => Cardinality(Sends(c, "refresh")) = 1
            /\ \A i \in Sends(c, "refresh") :
                /\ i = Len(reqs[c])
                /\ reqs[c][i].index = ScopedName(c)
                /\ \A j \in Sends(c, "bulk") :
                      j < i /\ reqs[c][j].outcome = "ok"
                /\ ld[c].pos = args[c].n + 1
                /\ ld[c].pbar = args[c].n
                /\ ld[c].closed

C15_Witness ==
    \E c \in Procs :
        /\ LoadEnded(c)
        /\ args[c].n = CHUNK_SIZE + 1
        /\ args[c].rejects # {}
        /\ Cardinality(Sends(c, "bulk")) = 2
        /\ Cardinality(Sends(c, "refresh")) = 1


\* C16: at every point of a load the progress counter is the number of
\* outcomes processed (successes plus logged failures), the success counter is
\* the number of processed documents that were not rejected, and
\* 0 <= count <= pbar <= documents read from the stream, whatever docs_count
\* says; a step of the load adds one to the progress counter or leaves it, and
\* adds one to the success counter only together with the progress counter.
Processed(c) == 1..ld[c].pbar
Consumed(c) == ld[c].pos - 1

ProgressCounts(c) ==
    /\ ld[c].pbar = ld[c].count + Cardinality(Failed(c))
    /\ ld[c].count = Cardinality(Processed(c) \ args[c].rejects)
    /\ { logs[c][i].id : i \in Failed(c) } = Processed(c) \cap args[c].rejects
    /\ 0 <= ld[c].count
    /\ ld[c].count <= ld[c].pbar
    /\ ld[c].pbar <= Consumed(c)
    /\ Consumed(c) <= args[c].n
    /\ ld[c].total = (IF ld[c].started THEN args[c].docs_count ELSE 0)

ProgressAdvances(c) ==
    (args[c].fn = "load_index" /\ args'[c] = args[c]) =>
        /\ ld'[c].pbar \in {ld[c].pbar, ld[c].pbar + 1}
        /\ ld'[c].count \in {ld[c].count, ld[c].count + 1}
        /\ ld'[c].count # ld[c].count => ld'[c].pbar = ld[c].pbar + 1
        /\ (pc[c] = "ld_outcome") => ld'[c].pbar = ld[c].pbar + 1

C16_ProgressCountsOutcomes ==
    /\ [](\A c \in Procs : args[c].fn = "load_index" => ProgressCounts(c))
    /\ [][\A c \in Procs : ProgressAdvances(c)]_vars

\* a load whose declared count is wrong, in the middle of its second chunk,
\* with a rejected document behind it
C16_Witness ==
    \E c \in Procs :
        /\ args[c].fn = "load_index"
        /\ args[c].docs_count # args[c].n
        /\ pc[c] = "ld_outcome"
        /\ ld[c].pbar > CHUNK_SIZE
        /\ ld[c].count < ld[c].pbar
        /\ ld[c].pbar < Consumed(c)


\* C17: a create whose existence check answers "absent" sends its requests in
\* the order health, exists, info, put_template, create, each one only after
\* the one before it succeeded; put_template is sent at most once, under the
\* fixed template name, exactly once before any create request; the create
\* request names the scoped index with the caller's mapping; a failed
\* put_template ends the call with an error and no create request.
CreateOrder == <<"health", "exists", "info", "put_template", "create">>
\* position in the request log of the first request of create_index
CreateStart(c) == IF args[c].fn = "load_index" THEN 3 ELSE 1
CreatesAbsent(c) ==
    /\ args[c].fn \in {"create_index", "load_index"}
    /\ args[c].fn = "load_index" => Len(reqs[c]) >= 2 /\ reqs[c][2].answer = "absent"
    /\ Len(reqs[c]) >= CreateStart(c) + 1
    /\ reqs[c][CreateStart(c) + 1].answer = "absent"

C17_CreateStepsInOrder ==
    \A c \in Procs :
        CreatesAbsent(c) =>
            /\ \A k \in DOMAIN CreateOrder :
                  CreateStart(c) + k - 1 <= Len(reqs[c]) =>
                      /\ reqs[c][CreateStart(c) + k - 1].kind = CreateOrder[k]
                      /\ k > 1 => reqs[c][CreateStart(c) + k - 2].outcome = "ok"
            /\ Cardinality(Sends(c, "put_template")) <= 1
            /\ Cardinality(Sends(c, "create")) <= 1
            /\ Sends(c, "create") # {} => Cardinality(Sends(c, "put_template")) = 1
            /\ \A i \in Sends(c, "put_template") :
                  /\ reqs[c][i].name = DEFAULT_ES_INDEX_TEMPLATE_NAME
                  /\ reqs[c][i].outcome # "ok" =>
                        /\ Sends(c, "create") = {}
                        /\ pc[c] = "done"
                        /\ err[c] # NoExc
                        /\ ScopedName(c) \notin indices
            /\ \A i \in Sends(c, "create") :
                  /\ reqs[c][i].index = ScopedName(c)
                  /\ reqs[c][i].mapping = args[c].mapping

\* a create stopped by the refusal of its template
C17_Witness ==
    \E c \in Procs :
        /\ args[c].fn = "create_index"
        /\ CreatesAbsent(c)
        /\ pc[c] = "done"
        /\ \E i \in Sends(c, "put_template") : reqs[c][i].outcome = "TransportError"
        /\ Len(reqs[c]) = 4


\* C18: two create_index calls on one absent index can both be told "absent"
\* and both send the create request.  Every create request the engine refuses
\* because the index exists by then belongs to a call whose own existence
\* check had answered "absent"; that call ends with KnowledgeBaseError carrying
\* the status, not with the logged no-op, and the index is the other caller's.
Refused(c) ==
    { i \in Sends(c, "create") :
        reqs[c][i].outcome = "TransportError" /\ reqs[c][i].status = 400 }

C18_RaceLoserEndsWithError ==
    \A c \in Procs :
        \A i \in Refused(c) :
            /\ Reported(c, "absent")
            /\ ~Reported(c, "present")
            /\ pc[c] = "done"
            /\ err[c].cls = "KnowledgeBaseError"
            /\ err[c].detail = 400
            /\ ret[c] = Unset
            /\ \A l \in DOMAIN logs[c] : logs[c][l].event # "index_exists"
            /\ ScopedName(c) \in indices
            /\ \E d \in Procs \ {c} :
                  \E j \in Sends(d, "create") :
                      /\ reqs[d][j].outcome = "ok"
                      /\ reqs[d][j].index = reqs[c][i].index

\* both callers passed the existence check and sent the create request; the
\* engine accepted one and refused the other
C18_Witness ==
    \E c, d \in Procs :
        /\ c # d
        /\ args[c].fn = "create_index" /\ args[d].fn = "create_index"
        /\ ScopedName(c) = ScopedName(d)
        /\ Reported(c, "absent") /\ Reported(d, "absent")
        /\ \E j \in Sends(d, "create") : reqs[d][j].outcome = "ok"
        /\ Refused(c) # {}
        /\ err[c].cls = "KnowledgeBaseError"


\* C19: a load whose existence check answers "absent" and whose delegated
\* create_index fails at one of its requests ends there with the error
\* create_index raised, as create_index raised it: no generation resolved for
\* the load, no batch, no progress, no refresh, no value returned.  A load
\* whose existence check answers "present" sends no put_template and no
\* create request.
CreateRequests(c) == { i \in DOMAIN reqs[c] : i >= CreateStart(c) /\ i < CreateStart(c) + Len(CreateOrder) }
\* what create_index raises for a failure of the request r
RaisedByCreate(r) ==
    IF r.outcome \in ConnectionFailures
    THEN [Exc("KnowledgeBaseConnectionError", 0) EXCEPT !.es_host = ClientHosts]
    ELSE IF r.outcome = "TransportError" /\ r.kind \in {"info", "put_template", "create"}
    THEN [Exc("KnowledgeBaseError", 0) EXCEPT !.detail = r.status]
    ELSE Exc("KnowledgeBaseError", 0)

C19_LoadPassesCreateFailureOn ==
    \A c \in Procs :
        (args[c].fn = "load_index" /\ Len(reqs[c]) >= 2) =>
            /\ reqs[c][2].answer = "absent" =>
                  \A i \in CreateRequests(c) :
                      reqs[c][i].outcome # "ok" =>
                          /\ i = Len(reqs[c])
                          /\ pc[c] = "done"
                          /\ err[c] = RaisedByCreate(reqs[c][i])
                          /\ ret[c] = Unset
                          /\ ~ld[c].resolved
                          /\ ~ld[c].started
                          /\ ld[c].pbar = 0
                          /\ ld[c].count = 0
                          /\ Sends(c, "bulk") = {}
                          /\ Sends(c, "refresh") = {}
            /\ reqs[c][2].answer = "present" =>
                  /\ Sends(c, "put_template") = {}
                  /\ Sends(c, "create") = {}

\* a load whose delegated create was refused its template by the engine
C19_Witness ==
    \E c \in Procs :
        /\ args[c].fn = "load_index"
        /\ Len(reqs[c]) = 6
        /\ reqs[c][2].answer = "absent"
        /\ reqs[c][6].kind = "put_template"
        /\ reqs[c][6].outcome = "TransportError"
        /\ pc[c] = "done"
        /\ err[c].cls = "KnowledgeBaseError"
        /\ err[c].detail = reqs[c][6].status
        /\ err[c].detail # 0

====
